---------------------------- MODULE Spec2Model ----------------------------
(***************************************************************************)
(* A model of the GR4J rainfall-runoff engine (src/src/gr4j_model.py), its *)
(* unit-hydrograph builder, the metrics (calculate_nse, RMSE, bias) and    *)
(* the calibration script (src/src/calibrate_model.py).                    *)
(*                                                                         *)
(* Floating-point quantities are fixed-point integers: the real number r   *)
(* is the integer floor(r * SCALE).  Every product and quotient is taken   *)
(* as the code takes it and then rounded down to the grid.                 *)
(***************************************************************************)
EXTENDS Integers, Sequences, FiniteSets, TLC

VARIABLES
    \* ---- GR4J instance and one call of GR4J.run
    X1, X2, X3, X4,        \* self.X1 .. self.X4 (fixed point)
    lenP, lenE,            \* len(precip), len(evap)
    precip, evap,          \* the entries of precip / evap read so far
    pc,                    \* "constructed" | "loop" | "returned" | "raised"
    err,                   \* the exception that ended run, or "none"
    t,                     \* loop index of run
    S, R,                  \* production store, routing store
    UH1, UH2,              \* unit hydrograph ordinates
    UH1_stores, UH2_stores,\* routing delay lines
    Ps, Pr, Q9, Q1, Qr,    \* locals of the loop body, as last assigned
    perc, Pr9, Pr1,        \* further locals of the loop body
    Q,                     \* the output array (entries 1..t written)
    Pr9_hist, Pr1_hist,    \* history: Pr9 and Pr1 of every completed day
    \* ---- two calls of run on one instance, with the same arrays
    calls,                 \* call name |-> the call's frame (its locals)
    \* ---- a stand-alone call of _compute_unit_hydrographs
    uhX4, uhpc, uhUH1, uhUH2,
    \* ---- the metrics
    observed, simulated, mpc, nse, rmse, bias,
    \* ---- the calibration script
    cpc, obs_flow, sim_flow, population, energies, nit, lastObjective

instVars == <<X1, X2, X3, X4>>
argVars == <<lenP, lenE, precip, evap>>
frameVars == <<pc, err, t, S, R, UH1, UH2, UH1_stores, UH2_stores,
               Ps, Pr, Q9, Q1, Qr, perc, Pr9, Pr1, Q, Pr9_hist, Pr1_hist>>
runVars == <<instVars, argVars, frameVars, calls>>
uhVars  == <<uhX4, uhpc, uhUH1, uhUH2>>
metVars == <<observed, simulated, mpc, nse, rmse, bias>>
calVars == <<cpc, obs_flow, sim_flow, population, energies, nit, lastObjective>>
vars    == <<runVars, uhVars, metVars, calVars>>

-----------------------------------------------------------------------------
(* Fixed-point arithmetic.                                                 *)

\* One unit of the real line; 10^-4 is the resolution of the model.
SCALE == 10^4
\* SCALE == SQ * SQ, used to divide without overflowing 32-bit integers.
SQ == 10^2

Abs(x) == IF x < 0 THEN -x ELSE x
Max(a, b) == IF a >= b THEN a ELSE b
Min(a, b) == IF a <= b THEN a ELSE b

\* floor(a * b / SCALE), exactly, with no intermediate above |a*b/SCALE|.
Mul(a, b) ==
    LET aq == a \div SCALE  ar == a % SCALE
        bq == b \div SCALE  br == b % SCALE
    IN  aq * bq * SCALE + aq * br + ar * bq + (ar * br) \div SCALE

\* floor(a * SCALE / b) for b > 0, in two stages of SQ.
DivPos(a, b) ==
    LET q1 == a \div b
        r1 == a % b
        q2 == (r1 * SQ) \div b
        r2 == (r1 * SQ) % b
    IN  q1 * SCALE + q2 * SQ + (r2 * SQ) \div b

\* a / b on the grid; b # 0 (the callers raise ZeroDivisionError before).
Div(a, b) == IF b > 0 THEN DivPos(a, b) ELSE DivPos(-a, -b)

RECURSIVE IsqrtIter(_, _, _)
IsqrtIter(n, lo, hi) ==
    IF hi - lo <= 1 THEN lo
    ELSE LET mid == (lo + hi) \div 2
         IN  IF mid * mid <= n THEN IsqrtIter(n, mid, hi)
                               ELSE IsqrtIter(n, lo, mid)
\* floor(sqrt(n)) for 0 <= n < 2^31.
Isqrt(n) == IsqrtIter(n, 0, 46341)

\* sqrt(x) on the grid, x >= 0: floor(sqrt(x * SCALE)), with the radicand
\* kept below 2^31 for large x at the cost of the last digits.
Sqrt(x) ==
    IF x < 2 * 10^5 THEN Isqrt(x * SCALE)
    ELSE IF x < 2 * 10^7 THEN 10 * Isqrt(x * SQ)
    ELSE SQ * Isqrt(x)

\* x ** 2.5, x ** 3.5, x ** 4 and x ** (-0.25) on the grid, x >= 0.
Pow25(x) == Mul(Mul(x, x), Sqrt(x))
Pow35(x) == Mul(Mul(Mul(x, x), x), Sqrt(x))
Pow4(x) == Mul(Mul(x, x), Mul(x, x))
PowM025(x) == Div(SCALE, Sqrt(Sqrt(x)))

\* np.tanh(x): the Pade approximant x(27 + x^2)/(27 + 9 x^2) on [-3, 3],
\* which is odd, increasing and reaches 1 at x = 3; saturated outside.
Tanh(x) ==
    IF x >= 3 * SCALE THEN SCALE
    ELSE IF x <= -3 * SCALE THEN -SCALE
    ELSE LET x2 == Mul(x, x)
         IN  Div(Mul(x, 27 * SCALE + x2), 27 * SCALE + 9 * x2)

\* np.ceil(x) as an integer count.
Ceil(x) == -((-x) \div SCALE)

\* np.clip(x, lo, hi) == minimum(maximum(x, lo), hi)
Clip(x, lo, hi) == Min(Max(x, lo), hi)

RECURSIVE SumSeq(_)
SumSeq(s) == IF s = <<>> THEN 0 ELSE Head(s) + SumSeq(Tail(s))

\* np.sum(a * b) for arrays of equal length.
RECURSIVE Dot(_, _)
Dot(a, b) == IF a = <<>> THEN 0 ELSE Mul(Head(a), Head(b)) + Dot(Tail(a), Tail(b))

\* np.zeros(n)
Zeros(n) == [i \in 1..n |-> 0]

\* a[1:] = a[1:] - a[:-1]: the right-hand side is evaluated on the old array.
Difference(a) == [i \in 1..Len(a) |-> IF i = 1 THEN a[1] ELSE a[i] - a[i-1]]

-----------------------------------------------------------------------------
(* GR4J._compute_unit_hydrographs                                          *)

\* The value written to UH1[t] by the first loop (t is the 0-based index).
UH1Cumulative(x4, tt) ==
    IF tt * SCALE < x4 THEN Pow25(Div((tt + 1) * SCALE, x4)) ELSE 0

\* The value written to UH2[t] by the second loop.
UH2Cumulative(x4, tt) ==
    IF tt * SCALE < x4
    THEN Mul(SCALE \div 2, Pow25(Div((tt + 1) * SCALE, x4)))
    ELSE IF tt * SCALE < 2 * x4
         THEN LET ratio == 2 * SCALE - Div((tt + 1) * SCALE, x4)
              IN  IF ratio > 0 THEN SCALE - Mul(SCALE \div 2, Pow25(ratio))
                               ELSE SCALE
         ELSE 0

ComputeUH1(x4) ==
    LET nUH1 == Ceil(x4)
        cum  == [i \in 1..nUH1 |-> UH1Cumulative(x4, i - 1)]
    IN  IF nUH1 > 1 THEN Difference(cum) ELSE cum

ComputeUH2(x4) ==
    LET nUH2 == Ceil(2 * x4)
        cum  == [i \in 1..nUH2 |-> UH2Cumulative(x4, i - 1)]
    IN  IF nUH2 > 1 THEN Difference(cum) ELSE cum

\* Bounds of the stand-alone kernel computation: X4 = k/10, k in 1..MaxX4Tenths.
MaxX4Tenths == 60

InitUHVars ==
    /\ uhX4 \in {k * (SCALE \div 10) : k \in 1..MaxX4Tenths}
    /\ uhpc = "start"
    /\ uhUH1 = <<>>
    /\ uhUH2 = <<>>

\* lines 117-127: UH1 is built and differenced.
BuildUH1 ==
    /\ uhpc = "start"
    /\ uhUH1' = ComputeUH1(uhX4)
    /\ uhpc' = "uh1"
    /\ UNCHANGED <<uhX4, uhUH2>>

\* lines 129-147: UH2 is built and differenced, and both are returned.
BuildUH2 ==
    /\ uhpc = "uh1"
    /\ uhUH2' = ComputeUH2(uhX4)
    /\ uhpc' = "done"
    /\ UNCHANGED <<uhX4, uhUH1>>

-----------------------------------------------------------------------------
(* GR4J.run: the loop body, lines 50-110, as a function of the state.      *)

\* lines 56-58: Ps, the part of net precipitation entering the store.
ProductionInflow(s, x1, pn) ==
    LET capacity_ratio == Div(s, x1)
        th == Tanh(Div(pn, x1))
        num == Mul(Mul(x1, SCALE - Mul(capacity_ratio, capacity_ratio)), th)
    IN  Div(num, SCALE + Mul(capacity_ratio, th))

\* lines 66-68: Es, the evaporation taken from the store.
StoreEvaporation(s, x1, en) ==
    LET capacity_ratio == Div(s, x1)
        th == Tanh(Div(en, x1))
        num == Mul(Mul(s, 2 * SCALE - capacity_ratio), th)
    IN  Div(num, SCALE + Mul(SCALE - capacity_ratio, th))

\* lines 73-74: S = np.clip(S - Es + Ps, 0, X1)
UpdateStore(s, es, ps, x1) == Clip(s - es + ps, 0, x1)

\* x * (1 - (1 + (x / cap / 2.25)**4)**(-0.25)), lines 77-78 and 104-105.
StoreOutflow(x, cap) ==
    LET ratio == Div(x, cap)
    IN  Mul(x, SCALE - PowM025(SCALE + Pow4(Div(ratio, (225 * SCALE) \div 100))))

\* line 78: percolation from the production store.
PercolationBad(s, x1) ==
    Mul(s, SCALE + PowM025(SCALE + Pow4(Div(Div(s, x1), (225 * SCALE) \div 100))))
PercolationNeg(s, x1) == 0 - StoreOutflow(s, x1)
Percolation(s, x1) == StoreOutflow(s, x1)

\* lines 89-90 / 93-94: np.roll(stores, 1) then stores[0] = v.
RollInsertNoShift(stores, v) ==
    [i \in 1..Len(stores) |-> IF i = 1 THEN v ELSE stores[i]]
RollInsert(stores, v) ==
    [i \in 1..Len(stores) |-> IF i = 1 THEN v ELSE stores[i - 1]]

\* line 82: Pr = perc + (precip[t] - Ps), with pn the net rainfall
\* max(precip[t] - evap[t], 0) of the day.
RoutingInputNet(prc, p, ps, pn) == prc + (pn - ps)
RoutingInput(prc, p, ps, pn) == prc + (p - ps)

\* line 98: F = X2 * (R / X3)**3.5
Exchange(r, x2, x3) == Mul(x2, Pow35(Div(r, x3)))

\* line 101: R = max(0, R + Q9 + F)
UpdateRoutingUnclamped(r, q9, f) == r + q9 + f
UpdateRouting(r, q9, f) == Max(0, r + q9 + f)

\* line 109: Qd = max(0, Qr + Q1)
DischargeBad(qr, q1) == qr + q1
Discharge(qr, q1) == Max(0, qr + q1)

\* The locals a failed step leaves unassigned keep their old values.
Raise(st, e) == [st EXCEPT !.err = e]

\* One pass of the loop body on the state st with precip[t] = p, evap[t] = e.
\* st.err names the exception the pass raised, "none" if it completed.
StepFn(x1, x2, x3, uh1, uh2, st, p, e) ==
    IF x1 = 0 THEN Raise(st, "ZeroDivisionError")          \* S / self.X1
    ELSE
    LET ps == IF p >= e THEN ProductionInflow(st.S, x1, p - e) ELSE 0
        es == IF p >= e THEN 0 ELSE StoreEvaporation(st.S, x1, e - p)
        s1 == UpdateStore(st.S, es, ps, x1)
        prc == Percolation(s1, x1)
        s2 == s1 - prc
        pr == RoutingInput(prc, p, ps, IF p >= e THEN p - e ELSE 0)
        pr9 == Mul((9 * SCALE) \div 10, pr)
        pr1 == Mul(SCALE \div 10, pr)
        mid == [st EXCEPT !.S = s2, !.Ps = ps, !.perc = prc, !.Pr = pr,
                          !.Pr9 = pr9, !.Pr1 = pr1]
    IN  IF Len(st.U1) = 0 THEN Raise(mid, "IndexError")     \* UH1_stores[0] = Pr9
        ELSE IF Len(st.U2) = 0 THEN Raise(mid, "IndexError")
        ELSE
        LET u1 == RollInsert(st.U1, pr9)
            q9 == Dot(u1, uh1)
            u2 == RollInsert(st.U2, pr1)
            q1 == Dot(u2, uh2)
            mid2 == [mid EXCEPT !.U1 = u1, !.U2 = u2, !.Q9 = q9, !.Q1 = q1]
        IN  IF x3 = 0 THEN Raise(mid2, "ZeroDivisionError")  \* R / self.X3
            ELSE
            LET f == Exchange(st.R, x2, x3)
                r1 == UpdateRouting(st.R, q9, f)
                qr == StoreOutflow(r1, x3)
            IN  [mid2 EXCEPT !.R = r1 - qr, !.Qr = qr,
                             !.Qd = Discharge(qr, q1)]

\* lines 36-47: the state run starts its loop with.
InitialRunStateCarried(x1, x3, uh1, uh2) ==
    IF \E c \in DOMAIN calls : calls[c].pc # "ready"
    THEN calls[CHOOSE c \in DOMAIN calls : calls[c].pc # "ready"].st
    ELSE [S |-> Mul(x1, SCALE \div 2), R |-> Mul(x3, SCALE \div 2),
          U1 |-> Zeros(Len(uh1)), U2 |-> Zeros(Len(uh2)),
          Ps |-> 0, Pr |-> 0, Q9 |-> 0, Q1 |-> 0, Qr |-> 0, Qd |-> 0,
          perc |-> 0, Pr9 |-> 0, Pr1 |-> 0, err |-> "none"]
InitialRunState(x1, x3, uh1, uh2) ==
    [S |-> Mul(x1, SCALE \div 2), R |-> Mul(x3, SCALE \div 2),
     U1 |-> Zeros(Len(uh1)), U2 |-> Zeros(Len(uh2)),
     Ps |-> 0, Pr |-> 0, Q9 |-> 0, Q1 |-> 0, Qr |-> 0, Qd |-> 0,
     perc |-> 0, Pr9 |-> 0, Pr1 |-> 0, err |-> "none"]

-----------------------------------------------------------------------------
(* float64 results that may be NaN or infinite, and numpy broadcasting.    *)

Num(v) == [k |-> "num", v |-> v]
NaN == [k |-> "nan", v |-> 0]
PosInf == [k |-> "posinf", v |-> 0]
NegInf == [k |-> "neginf", v |-> 0]
Unset == [k |-> "unset", v |-> 0]

\* a / b for float64 scalars: division by zero warns and yields inf or nan.
FDiv(a, b) ==
    IF a.k = "nan" \/ b.k = "nan" THEN NaN
    ELSE IF b.v = 0 THEN (IF a.v = 0 THEN NaN
                          ELSE IF a.v > 0 THEN PosInf ELSE NegInf)
    ELSE Num(Div(a.v, b.v))

\* 1 - x
OneMinus(x) ==
    IF x.k = "num" THEN Num(SCALE - x.v)
    ELSE IF x.k = "posinf" THEN NegInf
    ELSE IF x.k = "neginf" THEN PosInf
    ELSE NaN

\* -x
Neg(x) ==
    IF x.k = "num" THEN Num(-x.v)
    ELSE IF x.k = "posinf" THEN NegInf
    ELSE IF x.k = "neginf" THEN PosInf
    ELSE NaN

\* np.sqrt(x)
FSqrt(x) == IF x.k = "num" THEN Num(Sqrt(x.v)) ELSE x

\* np.mean(a): the mean of an empty array is nan (with a warning).
Mean(a) == IF Len(a) = 0 THEN NaN ELSE Num(SumSeq(a) \div Len(a))

\* Two 1-d arrays combine elementwise when their lengths are equal or one
\* of them is 1; any other pair raises ValueError.
Broadcastable(a, b) == Len(a) = Len(b) \/ Len(a) = 1 \/ Len(b) = 1

\* The length of the elementwise result (a length-1 array is stretched to
\* the other one's length, which may be 0).
BroadcastLen(a, b) == IF Len(a) = 1 THEN Len(b) ELSE Len(a)

\* Entry i of an array stretched to the broadcast length.
At(a, i) == IF Len(a) = 1 THEN a[1] ELSE a[i]

\* a - b, elementwise with broadcasting.
ArraySub(a, b) == [i \in 1..BroadcastLen(a, b) |-> At(a, i) - At(b, i)]

\* a ** 2, elementwise.
ArraySquare(a) == [i \in 1..Len(a) |-> Mul(a[i], a[i])]

-----------------------------------------------------------------------------
(* calculate_nse (gr4j_model.py) and the RMSE and bias of validate_model.  *)

\* lines 152-156; called only when the arrays are broadcastable.
calculate_nse(obs, sim) ==
    LET obs_mean == Mean(obs)
        numerator == Num(SumSeq(ArraySquare(ArraySub(obs, sim))))
        denominator ==
            IF obs_mean.k = "nan" THEN
                \* observed is empty: observed - nan is empty and sums to 0.0
                Num(0)
            ELSE Num(SumSeq(ArraySquare([i \in 1..Len(obs) |-> obs[i] - obs_mean.v])))
    IN  OneMinus(FDiv(numerator, denominator))

\* validate_model.py line 43
calculate_rmse(obs, sim) == FSqrt(Mean(ArraySquare(ArraySub(obs, sim))))

\* validate_model.py line 44
calculate_bias(obs, sim) == Mean(ArraySub(sim, obs))

\* The longest sequence handed to the metrics.
MaxLen == 3
\* Streamflow values (mm/day).
FlowVals == {0, SCALE, 3 * SCALE}

RECURSIVE SeqsUpTo(_, _)
SeqsUpTo(vals, n) ==
    IF n = 0 THEN {<<>>}
    ELSE LET shorter == SeqsUpTo(vals, n - 1)
         IN  shorter \cup {Append(q, v) : q \in {r \in shorter : Len(r) = n - 1}, v \in vals}

InitMetVars ==
    /\ observed \in SeqsUpTo(FlowVals, MaxLen)
    /\ simulated \in SeqsUpTo(FlowVals, MaxLen)
    /\ mpc = "start"
    /\ nse = Unset /\ rmse = Unset /\ bias = Unset

\* validate_model.py line 42: nse = calculate_nse(obs_flow, sim_flow)
ComputeNSE ==
    /\ mpc = "start"
    /\ IF Broadcastable(observed, simulated)
       THEN nse' = calculate_nse(observed, simulated) /\ mpc' = "nse_done"
       ELSE nse' = nse /\ mpc' = "ValueError"
    /\ UNCHANGED <<observed, simulated, rmse, bias>>

\* validate_model.py line 43
ComputeRMSE ==
    /\ mpc = "nse_done"
    /\ rmse' = calculate_rmse(observed, simulated)
    /\ mpc' = "rmse_done"
    /\ UNCHANGED <<observed, simulated, nse, bias>>

\* validate_model.py line 44
ComputeBias ==
    /\ mpc = "rmse_done"
    /\ bias' = calculate_bias(observed, simulated)
    /\ mpc' = "done"
    /\ UNCHANGED <<observed, simulated, nse, rmse>>

-----------------------------------------------------------------------------
(* calibrate_model.py: the objective and the differential_evolution call.  *)

\* GR4J(...).run(precip, evap) as a function: the loop of lines 49-110 from
\* entry i on.  The result is the output array, or the exception raised.
RECURSIVE RunLoop(_, _, _, _, _, _, _, _, _, _)
RunLoop(x1, x2, x3, uh1, uh2, st, P, E, i, q) ==
    IF i > Len(P) THEN [err |-> "none", Q |-> q]
    ELSE IF i > Len(E) THEN [err |-> "IndexError", Q |-> <<>>]
    ELSE LET nx == StepFn(x1, x2, x3, uh1, uh2, st, P[i], E[i])
         IN  IF nx.err # "none" THEN [err |-> nx.err, Q |-> <<>>]
             ELSE RunLoop(x1, x2, x3, uh1, uh2, nx, P, E, i + 1, Append(q, nx.Qd))

RunModel(x1, x2, x3, x4, P, E) ==
    LET uh1 == ComputeUH1(x4)
        uh2 == ComputeUH2(x4)
    IN  RunLoop(x1, x2, x3, uh1, uh2, InitialRunState(x1, x3, uh1, uh2),
                P, E, 1, <<>>)

\* lines 36-41: the box the search stays in.
LowerBounds == <<100 * SCALE, -5 * SCALE, 20 * SCALE, (11 * SCALE) \div 10>>
UpperBounds == <<1200 * SCALE, 3 * SCALE, 300 * SCALE, (29 * SCALE) \div 10>>
InBounds(c) == \A d \in 1..4 : LowerBounds[d] <= c[d] /\ c[d] <= UpperBounds[d]

\* The parameter vectors the search may visit: a grid inside the box.
Candidates ==
    {c \in {<<100 * SCALE, -5 * SCALE, 20 * SCALE, (11 * SCALE) \div 10>>,
            <<350 * SCALE, 0, 90 * SCALE, (17 * SCALE) \div 10>>,
            <<1200 * SCALE, 3 * SCALE, 300 * SCALE, (29 * SCALE) \div 10>>} :
        InBounds(c)}

\* lines 11-17: the forcing columns of the calibration table.
CalPrecip == <<10 * SCALE, 0, 5 * SCALE>>
CalEvap == <<0, 2 * SCALE, 0>>

\* lines 19-22: the values the observed flow column may hold (mm/day).
ObsVals == {0, SCALE}

\* lines 28-29 for each candidate.  run is a function of the parameters and
\* the forcing, and the forcing does not change during the search, so the
\* flow a candidate simulates is computed once and kept in sim_flow.
SimFlow == [c \in Candidates |-> RunModel(c[1], c[2], c[3], c[4], CalPrecip, CalEvap)]

\* lines 25-33: objective(params) with obs_flow = obs.  No exception is
\* caught and no value is replaced: what calculate_nse returns is negated.
Objective(c, obs) == Neg(calculate_nse(obs, sim_flow[c].Q))

\* line 50: maxiter = 50
maxiter == 50
\* The number of population members the model keeps.
PopMembers == 2

\* differential_evolution is called without tol and atol, which leaves the
\* solver's defaults tol = 0.01 and atol = 0 in force.
tol == SCALE \div 100
atol == 0

AllNum(e) == \A i \in 1..Len(e) : e[i].k = "num"
Values(e) == [i \in 1..Len(e) |-> e[i].v]

\* np.std of the population energies.
StdDev(v) ==
    LET m == SumSeq(v) \div Len(v)
    IN  Sqrt(SumSeq(ArraySquare([i \in 1..Len(v) |-> v[i] - m])) \div Len(v))

\* The solver's convergence test after a generation:
\* std(energies) <= atol + tol * |mean(energies)|, false when an
\* energy is infinite or nan.
Converged(e) ==
    /\ AllNum(e)
    /\ StdDev(Values(e)) <= atol + Mul(tol, Abs(SumSeq(Values(e)) \div Len(e)))

\* Selection: the trial replaces the member when its energy is not larger
\* (a comparison with nan is false).
Accept(trialE, oldE) ==
    \/ trialE.k = "num" /\ oldE.k = "num" /\ trialE.v <= oldE.v
    \/ trialE.k = "neginf" /\ oldE.k # "nan"
    \/ trialE.k = "posinf" /\ oldE.k = "posinf"
    \/ trialE.k = "num" /\ oldE.k = "posinf"

InitCalVars ==
    /\ cpc = "start"
    /\ obs_flow \in {q \in SeqsUpTo(ObsVals, Len(CalPrecip)) : Len(q) = Len(CalPrecip)}
    /\ sim_flow = SimFlow
    /\ population = <<>>
    /\ energies = <<>>
    /\ nit = 0
    /\ lastObjective = Unset

\* The solver draws its initial population (distinct points of the box) and
\* evaluates the objective on each member.
InitPopulation ==
    /\ cpc = "start"
    /\ \E pop \in [1..PopMembers -> Candidates] :
          /\ \A i, j \in 1..PopMembers : i # j => pop[i] # pop[j]
          /\ population' = pop
          /\ energies' = [i \in 1..PopMembers |-> Objective(pop[i], obs_flow)]
    /\ lastObjective' = energies'[PopMembers]
    /\ cpc' = "evolving"
    /\ UNCHANGED <<obs_flow, sim_flow, nit>>

\* One generation: a trial vector per member (mutation and crossover are
\* random, so any point of the grid may come up), the objective on each
\* trial, selection, and then the test that ends the search.
Generation ==
    /\ cpc = "evolving"
    /\ nit < maxiter
    /\ \E trial \in [1..PopMembers -> Candidates] :
          \E te \in {[i \in 1..PopMembers |-> Objective(trial[i], obs_flow)]} :
             /\ population' = [i \in 1..PopMembers |->
                                 IF Accept(te[i], energies[i]) THEN trial[i]
                                                              ELSE population[i]]
             /\ energies' = [i \in 1..PopMembers |->
                                 IF Accept(te[i], energies[i]) THEN te[i]
                                                              ELSE energies[i]]
             /\ lastObjective' = te[PopMembers]
    /\ nit' = nit + 1
    /\ cpc' = IF Converged(energies') THEN "converged"
              ELSE IF nit' = maxiter THEN "maxiter"
              ELSE "evolving"
    /\ UNCHANGED <<obs_flow, sim_flow>>

-----------------------------------------------------------------------------
(* GR4J.__init__ and GR4J.run as a state machine.                          *)

\* The longest forcing series the model runs.
MaxN == 3

\* The names of the two calls, and their frames before either is made.
CallNames == {"A", "B"}
NotCalled ==
    [pc |-> "ready", t |-> 0, UH1 |-> <<>>, UH2 |-> <<>>,
     st |-> [S |-> 0, R |-> 0, U1 |-> <<>>, U2 |-> <<>>,
             Ps |-> 0, Pr |-> 0, Q9 |-> 0, Q1 |-> 0, Qr |-> 0, Qd |-> 0,
             perc |-> 0, Pr9 |-> 0, Pr1 |-> 0, err |-> "none"],
     Q |-> <<>>, overlapped |-> FALSE]
NoCalls == [c \in CallNames |-> NotCalled]

\* Parameter values GR4J is constructed with (mm, mm, mm, days), as Python
\* numbers: a division by a zero parameter raises ZeroDivisionError.  The
\* constructor accepts anything, so non-positive values are included
\* (X4 = 0 stands for every X4 in (-1, 0], which all give empty kernels).
\* X4 = 2.0 is a value at which both kernels sum to 1.
X1Vals == {100 * SCALE, 350 * SCALE, 0, -100 * SCALE}
X2Vals == {-5 * SCALE, 0, 3 * SCALE}
X3Vals == {20 * SCALE, 90 * SCALE, 0}
X4Vals == {(11 * SCALE) \div 10, (17 * SCALE) \div 10, 2 * SCALE, 0}

\* Daily forcing values (mm/day).
PrecipVals == {0, 10 * SCALE, 100 * SCALE}
EvapVals == {0, 20 * SCALE}

ValidParams == X1 > 0 /\ X3 > 0 /\ X4 > 0

\* lines 15-19: the state after GR4J(X1, X2, X3, X4); run not yet called.
InitRunVars ==
    /\ X1 \in X1Vals /\ X2 \in X2Vals /\ X3 \in X3Vals /\ X4 \in X4Vals
    /\ lenP = 0 /\ lenE = 0 /\ precip = <<>> /\ evap = <<>>
    /\ pc = "constructed" /\ err = "none" /\ t = 0
    /\ S = 0 /\ R = 0 /\ UH1 = <<>> /\ UH2 = <<>>
    /\ UH1_stores = <<>> /\ UH2_stores = <<>>
    /\ Ps = 0 /\ Pr = 0 /\ Q9 = 0 /\ Q1 = 0 /\ Qr = 0
    /\ perc = 0 /\ Pr9 = 0 /\ Pr1 = 0
    /\ Q = <<>> /\ Pr9_hist = <<>> /\ Pr1_hist = <<>>
    /\ calls = NoCalls

\* The loop state held in the variables.
CurrentRunState ==
    [S |-> S, R |-> R, U1 |-> UH1_stores, U2 |-> UH2_stores,
     Ps |-> Ps, Pr |-> Pr, Q9 |-> Q9, Q1 |-> Q1, Qr |-> Qr, Qd |-> 0,
     perc |-> perc, Pr9 |-> Pr9, Pr1 |-> Pr1, err |-> "none"]

\* lines 33-47: run is called with arrays of lengths n and m.
RunStart ==
    /\ pc = "constructed"
    /\ \E n \in 0..MaxN, m \in 0..MaxN :
          /\ lenP' = n
          /\ lenE' = m
          /\ Q' = Zeros(n)
    /\ S' = Mul(X1, SCALE \div 2)
    /\ R' = Mul(X3, SCALE \div 2)
    /\ UH1' = ComputeUH1(X4)
    /\ UH2' = ComputeUH2(X4)
    /\ UH1_stores' = Zeros(Len(UH1'))
    /\ UH2_stores' = Zeros(Len(UH2'))
    /\ t' = 0
    /\ pc' = "loop"
    /\ UNCHANGED <<X1, X2, X3, X4, precip, evap, err, Ps, Pr, Q9, Q1, Qr>>
    /\ UNCHANGED <<perc, Pr9, Pr1, Pr9_hist, Pr1_hist, calls>>
    /\ UNCHANGED <<uhVars, metVars, calVars>>

\* lines 49-110: one iteration of the loop, reading precip[t] and evap[t].
Step ==
    /\ pc = "loop"
    /\ t < lenP
    /\ IF t >= lenE
       THEN \* evap[t]: index out of bounds
            /\ pc' = "raised"
            /\ err' = "IndexError"
            /\ UNCHANGED <<precip, evap, t, S, R, UH1_stores, UH2_stores,
                           Ps, Pr, Q9, Q1, Qr, perc, Pr9, Pr1, Q,
                           Pr9_hist, Pr1_hist>>
       ELSE \E p \in PrecipVals, e \in EvapVals :
            \E st \in {StepFn(X1, X2, X3, UH1, UH2, CurrentRunState, p, e)} :
                /\ precip' = Append(precip, p)
                /\ evap' = Append(evap, e)
                /\ S' = st.S /\ R' = st.R
                /\ UH1_stores' = st.U1 /\ UH2_stores' = st.U2
                /\ Ps' = st.Ps /\ Pr' = st.Pr
                /\ Q9' = st.Q9 /\ Q1' = st.Q1 /\ Qr' = st.Qr
                /\ perc' = st.perc /\ Pr9' = st.Pr9 /\ Pr1' = st.Pr1
                /\ err' = st.err
                /\ IF st.err = "none"
                   THEN /\ Q' = [Q EXCEPT ![t + 1] = st.Qd]
                        /\ Pr9_hist' = Append(Pr9_hist, st.Pr9)
                        /\ Pr1_hist' = Append(Pr1_hist, st.Pr1)
                        /\ t' = t + 1
                        /\ pc' = "loop"
                   ELSE /\ pc' = "raised"
                        /\ UNCHANGED <<Q, t, Pr9_hist, Pr1_hist>>
    /\ UNCHANGED <<X1, X2, X3, X4, lenP, lenE, UH1, UH2, calls>>
    /\ UNCHANGED <<uhVars, metVars, calVars>>

\* line 112: return Q
Return ==
    /\ pc = "loop"
    /\ t = lenP
    /\ pc' = "returned"
    /\ UNCHANGED <<X1, X2, X3, X4, lenP, lenE, precip, evap, err, t, S, R,
                   UH1, UH2, UH1_stores, UH2_stores, Ps, Pr, Q9, Q1, Qr,
                   perc, Pr9, Pr1, Q, Pr9_hist, Pr1_hist, calls>>
    /\ UNCHANGED <<uhVars, metVars, calVars>>

-----------------------------------------------------------------------------
(* Two calls A and B of run on one GR4J instance with the same arrays,     *)
(* their loop iterations interleaved in any order (one after the other     *)
(* included).  Everything run assigns is a local of the call (lines 33-47: *)
(* n, S, R, Q, UH1, UH2, UH1_stores, UH2_stores), held in the call's       *)
(* frame.                                                                   *)

\* The longest arrays the two calls are given.
MaxCallLen == 2

\* The instances the two calls are made on: X1, X2, X3, X4.  The last has
\* X3 = 0, on which both calls raise ZeroDivisionError.
TwoCallParams ==
    {<<100 * SCALE, -5 * SCALE, 20 * SCALE, (11 * SCALE) \div 10>>,
     <<350 * SCALE, 0, 90 * SCALE, (17 * SCALE) \div 10>>,
     <<350 * SCALE, 3 * SCALE, 20 * SCALE, 2 * SCALE>>,
     <<100 * SCALE, 0, 0, (17 * SCALE) \div 10>>}

\* lines 15-19 and the arguments both calls receive.
InitTwoCallVars ==
    /\ \E v \in TwoCallParams :
          X1 = v[1] /\ X2 = v[2] /\ X3 = v[3] /\ X4 = v[4]
    /\ precip \in SeqsUpTo(PrecipVals, MaxCallLen)
    /\ evap \in SeqsUpTo(EvapVals, MaxCallLen)
    /\ lenP = Len(precip)
    /\ lenE = Len(evap)
    /\ calls = NoCalls

\* lines 33-47: call c enters run.  (overlapped records whether the other
\* call was inside its loop at that moment.)
CallStart(c) ==
    /\ calls[c].pc = "ready"
    /\ calls' = [calls EXCEPT ![c] =
          [pc |-> "loop", t |-> 0,
           UH1 |-> ComputeUH1(X4), UH2 |-> ComputeUH2(X4),
           st |-> InitialRunState(X1, X3, ComputeUH1(X4), ComputeUH2(X4)),
           Q |-> Zeros(lenP),
           overlapped |-> \E d \in CallNames : calls[d].pc = "loop"]]
    /\ UNCHANGED <<instVars, argVars, frameVars>>
    /\ UNCHANGED <<uhVars, metVars, calVars>>

\* lines 49-110: one loop iteration of call c.
CallStep(c) ==
    /\ calls[c].pc = "loop"
    /\ calls[c].t < lenP
    /\ IF calls[c].t >= lenE
       THEN calls' = [calls EXCEPT ![c].pc = "raised",
                                   ![c].st.err = "IndexError"]
       ELSE \E st \in {StepFn(X1, X2, X3, calls[c].UH1, calls[c].UH2,
                              calls[c].st, precip[calls[c].t + 1],
                              evap[calls[c].t + 1])} :
            calls' = [calls EXCEPT ![c] =
                IF st.err = "none"
                THEN [calls[c] EXCEPT !.st = st,
                                      !.Q[calls[c].t + 1] = st.Qd,
                                      !.t = @ + 1]
                ELSE [calls[c] EXCEPT !.st = st, !.pc = "raised"]]
    /\ UNCHANGED <<instVars, argVars, frameVars>>
    /\ UNCHANGED <<uhVars, metVars, calVars>>

\* line 112: call c returns its Q.
CallReturn(c) ==
    /\ calls[c].pc = "loop"
    /\ calls[c].t = lenP
    /\ calls' = [calls EXCEPT ![c].pc = "returned"]
    /\ UNCHANGED <<instVars, argVars, frameVars>>
    /\ UNCHANGED <<uhVars, metVars, calVars>>

\* Variables of the other components, at rest.
IdleUHVars == uhX4 = SCALE /\ uhpc = "idle" /\ uhUH1 = <<>> /\ uhUH2 = <<>>
IdleMetVars ==
    /\ observed = <<>> /\ simulated = <<>> /\ mpc = "idle"
    /\ nse = Unset /\ rmse = Unset /\ bias = Unset
IdleCalVars ==
    /\ cpc = "idle" /\ obs_flow = <<>> /\ sim_flow = <<>> /\ population = <<>>
    /\ energies = <<>> /\ nit = 0 /\ lastObjective = Unset
IdleFrameVars ==
    /\ pc = "idle" /\ err = "none" /\ t = 0
    /\ S = 0 /\ R = 0 /\ UH1 = <<>> /\ UH2 = <<>>
    /\ UH1_stores = <<>> /\ UH2_stores = <<>>
    /\ Ps = 0 /\ Pr = 0 /\ Q9 = 0 /\ Q1 = 0 /\ Qr = 0
    /\ perc = 0 /\ Pr9 = 0 /\ Pr1 = 0
    /\ Q = <<>> /\ Pr9_hist = <<>> /\ Pr1_hist = <<>>
IdleRunVars ==
    /\ X1 = 350 * SCALE /\ X2 = 0 /\ X3 = 90 * SCALE /\ X4 = (17 * SCALE) \div 10
    /\ lenP = 0 /\ lenE = 0 /\ precip = <<>> /\ evap = <<>>
    /\ IdleFrameVars
    /\ calls = NoCalls

Init == InitRunVars /\ IdleUHVars /\ IdleMetVars /\ IdleCalVars
Next == RunStart \/ Step \/ Return
Spec == Init /\ [][Next]_vars

\* Two calls of run on one instance.
InitTwoCalls ==
    InitTwoCallVars /\ IdleFrameVars /\ IdleUHVars /\ IdleMetVars /\ IdleCalVars
NextTwoCalls ==
    \/ \E c \in CallNames : CallStart(c)
    \/ \E c \in CallNames : CallStep(c)
    \/ \E c \in CallNames : CallReturn(c)
SpecTwoCalls == InitTwoCalls /\ [][NextTwoCalls]_vars

\* The stand-alone kernel computation.
InitUH == IdleRunVars /\ InitUHVars /\ IdleMetVars /\ IdleCalVars
NextUH ==
    \/ BuildUH1 /\ UNCHANGED <<runVars, metVars, calVars>>
    \/ BuildUH2 /\ UNCHANGED <<runVars, metVars, calVars>>
SpecUH == InitUH /\ [][NextUH]_vars

\* The metrics on arbitrary pairs of sequences.
InitMet == IdleRunVars /\ IdleUHVars /\ InitMetVars /\ IdleCalVars
NextMet ==
    \/ ComputeNSE /\ UNCHANGED <<runVars, uhVars, calVars>>
    \/ ComputeRMSE /\ UNCHANGED <<runVars, uhVars, calVars>>
    \/ ComputeBias /\ UNCHANGED <<runVars, uhVars, calVars>>
SpecMet == InitMet /\ [][NextMet]_vars

\* The calibration script.
InitCal == IdleRunVars /\ IdleUHVars /\ IdleMetVars /\ InitCalVars
NextCal ==
    \/ InitPopulation /\ UNCHANGED <<runVars, uhVars, metVars>>
    \/ Generation /\ UNCHANGED <<runVars, uhVars, metVars>>
SpecCal == InitCal /\ [][NextCal]_vars

-----------------------------------------------------------------------------
(* Properties of the unit hydrographs (checked under SpecUH).              *)

\* The rounding allowance of the fixed-point grid when a sum is compared
\* with 1.0: 10^-3, an order above the grid's resolution.
Tol == SCALE \div 10^3

NonNegative(a) == \A i \in 1..Len(a) : a[i] >= 0

\* The calibration range of X4, calibrate_model.py line 40.
InCalibrationRange(x4) == (11 * SCALE) \div 10 <= x4 /\ x4 <= (29 * SCALE) \div 10

\* C1: the two kernels returned by _compute_unit_hydrographs each sum to
\* 1.0 within the tolerance, stated for every X4 in the calibration range
\* [1.1, 2.9] (which includes the default 1.7).
C1_KernelsSumToOne ==
    (uhpc = "done" /\ InCalibrationRange(uhX4)) =>
        /\ Abs(SumSeq(uhUH1) - SCALE) <= Tol
        /\ Abs(SumSeq(uhUH2) - SCALE) <= Tol

\* C10: every ordinate of UH1 and of UH2 returned by
\* _compute_unit_hydrographs is >= 0, stated for every X4 in the calibration
\* range [1.1, 2.9].
C10_OrdinatesNonNegative ==
    (uhpc = "done" /\ InCalibrationRange(uhX4))
        => (NonNegative(uhUH1) /\ NonNegative(uhUH2))

-----------------------------------------------------------------------------
(* Properties of GR4J.run (checked under Spec).                            *)

\* C2: with X1, X3, X4 > 0 the production store satisfies 0 <= S <= X1 from
\* its initial value 0.5*X1 on, at the end of every time step.
C2_ProductionStoreBounded ==
    (ValidParams /\ pc # "constructed") => (0 <= S /\ S <= X1)

\* Some steps have run, rain has filled the store above its initial level
\* and percolation has drained it below capacity.
C2_Witness ==
    /\ ValidParams /\ pc = "returned" /\ t >= 2
    /\ S > Mul(X1, SCALE \div 2) /\ S < X1

\* C3: every value of the output Q is >= 0 for valid parameters, also when
\* the routed components Qr + Q1 are negative.
C3_DischargeNonNegative ==
    ValidParams => \A i \in 1..Len(Q) : Q[i] >= 0

\* A step whose routed components were negative wrote 0 to Q, with X2 < 0.
C3_Witness ==
    /\ ValidParams /\ X2 < 0 /\ pc = "loop" /\ t >= 1
    /\ Qr + Q1 < 0 /\ Q[t] = 0

\* C4: run fails whenever len(precip) # len(evap), in both directions, and
\* returns no output in that case.  Stated for valid parameters and a
\* non-empty precip, where nothing but the lengths is at fault; any
\* exception is accepted as the failure the claim asks for.
C4_ShapeMismatchRejected ==
    (ValidParams /\ lenP >= 1 /\ lenP # lenE) => pc # "returned"

\* C5: with X1 <= 0, X3 <= 0 or X4 <= 0 no time step is simulated and no
\* discharge sequence is returned, for every forcing length.  (Any
\* exception is accepted as the rejection the claim asks for.)
C5_InvalidParameterRejected ==
    ~ValidParams => (pc # "returned" /\ t = 0)

\* Every entry of precip and evap read so far is zero.
ZeroForcing ==
    /\ \A i \in 1..Len(precip) : precip[i] = 0
    /\ \A i \in 1..Len(evap) : evap[i] = 0

\* The first n entries of a never rise from one day to the next.
NeverRises(a, n) == \A i \in 1..(n - 1) : a[i + 1] <= a[i]

\* C11 as stated: under zero precipitation and zero evaporation, for valid
\* parameters, every completed step leaves S no higher than before, keeps
\* every discharge value >= 0, and the discharge written so far never
\* rises from one day to the next.
C11_NoGrowthUnderZeroForcing ==
    [][(ValidParams /\ t' = t + 1 /\ ZeroForcing')
          => (S' <= S /\ NonNegative(Q') /\ NeverRises(Q', t'))]_vars

\* C11, amended: under zero precipitation and zero evaporation, for valid
\* parameters with X2 of either sign, every completed step leaves S no
\* higher than before and every discharge value is >= 0.  (The discharge
\* itself may rise: the delay lines fill from zero and the routing store
\* gains the percolation and, for X2 > 0, the exchange.)
C11_StoreDrainsUnderZeroForcing ==
    [][(ValidParams /\ t' = t + 1 /\ ZeroForcing')
          => (S' <= S /\ NonNegative(Q'))]_vars

\* Three dry days have run with kernels that sum to 1 and no exchange
\* (X4 = 2.0, X2 = 0): S has fallen below its initial level, and the
\* discharge of the third day is above that of the first.
C11_Witness ==
    /\ ValidParams /\ ZeroForcing /\ pc = "returned" /\ t = 3
    /\ X4 = 2 * SCALE /\ X2 = 0
    /\ SumSeq(UH1) = SCALE /\ SumSeq(UH2) = SCALE
    /\ S < Mul(X1, SCALE \div 2)
    /\ Q[3] > Q[1]

\* The inflow routed on day d (days count from 1; 0 before the start).
Inflow(hist, d) == IF 1 <= d /\ d <= Len(hist) THEN hist[d] ELSE 0

\* A circular buffer of n slots 0..n-1 after the inflows of days 1..d have
\* been written, day k to slot (k - 1) mod n.
RECURSIVE RingAfter(_, _, _)
RingAfter(hist, n, d) ==
    IF d = 0 THEN [k \in 0..(n - 1) |-> 0]
    ELSE [RingAfter(hist, n, d - 1) EXCEPT ![(d - 1) % n] = hist[d]]

\* The n most recent inflows at day d, newest first.
Window(hist, n, d) == [i \in 1..n |-> Inflow(hist, d - (i - 1))]

\* A delay line with its kernel, after d completed days of inflows hist:
\* the line has the kernel's length, its entry of age i is the inflow of
\* day d - i, which is what the circular buffer holds in slot
\* (d - 1 - i) mod n, and q is the kernel's sum of products with them.
IsShiftRegister(stores, kernel, hist, d, q) ==
    /\ Len(stores) = Len(kernel)
    /\ Len(hist) = d
    /\ \A i \in 0..(Len(kernel) - 1) :
          /\ stores[i + 1] = Inflow(hist, d - i)
          /\ stores[i + 1] =
                RingAfter(hist, Len(kernel), d)[(d - 1 - i + Len(kernel)) % Len(kernel)]
    /\ q = Dot(Window(hist, Len(kernel), d), kernel)

\* C13: while run is in its loop and when it has returned, the delay lines
\* UH1_stores and UH2_stores are the windows of the last Len(UH1) (Len(UH2))
\* values of Pr9 (Pr1), newest first and zero before the first day, equal
\* to the contents of circular buffers indexed by the day modulo the
\* length; Q9 and Q1 are the convolution sums over these windows.
C13_DelayLinesAreCircularBuffers ==
    pc \in {"loop", "returned"} =>
        /\ IsShiftRegister(UH1_stores, UH1, Pr9_hist, t, Q9)
        /\ IsShiftRegister(UH2_stores, UH2, Pr1_hist, t, Q1)

\* Three days with different positive inflows have run on kernels of
\* lengths 2 and 4: UH1_stores has dropped the first day, UH2_stores still
\* holds a zero from before the start.
C13_Witness ==
    /\ pc = "returned" /\ t = 3 /\ Len(UH1) = 2 /\ Len(UH2) = 4
    /\ Pr9_hist[1] > 0 /\ Pr9_hist[2] > Pr9_hist[1] /\ Pr9_hist[3] > Pr9_hist[2]
    /\ UH1_stores = <<Pr9_hist[3], Pr9_hist[2]>>
    /\ UH2_stores = <<Pr1_hist[3], Pr1_hist[2], Pr1_hist[1], 0>>
    /\ Q9 > 0 /\ Q1 > 0

\* C14: after every completed step t the routing input is
\* Pr = perc + (precip[t] - Ps) with the day's raw precipitation; when
\* precip[t] < evap[t], Ps = 0 and Pr = perc + precip[t]; Pr9 = 0.9*Pr is
\* the newest entry of UH1_stores and Pr1 = 0.1*Pr that of UH2_stores.
C14_RoutingInputUsesRawPrecip ==
    (pc \in {"loop", "returned"} /\ t >= 1) =>
        /\ Pr = perc + (precip[t] - Ps)
        /\ precip[t] < evap[t] => (Ps = 0 /\ Pr = perc + precip[t])
        /\ Pr9 = Mul((9 * SCALE) \div 10, Pr)
        /\ Pr1 = Mul(SCALE \div 10, Pr)
        /\ UH1_stores[1] = Pr9
        /\ UH2_stores[1] = Pr1

\* A completed day with 0 < precip < evap: nothing entered the store, the
\* store percolated, and the whole rain went to routing.
C14_Witness ==
    /\ ValidParams /\ pc = "loop" /\ t >= 1
    /\ precip[t] > 0 /\ precip[t] < evap[t]
    /\ Ps = 0 /\ perc > 0
    /\ Pr = perc + precip[t]
    /\ UH1_stores[1] > 0 /\ UH2_stores[1] > 0

\* C15: for valid parameters (negative X2 included) the routing store is
\* >= 0 after each of its two updates in every step: R + Qr is its value
\* after line 101 (R = max(0, R + Q9 + F)), R its value after line 106
\* (R = R - Qr).  (That R is not bounded by X3 is the witness.)
C15_RoutingStoreNonNegative ==
    (ValidParams /\ pc # "constructed") => (R >= 0 /\ R + Qr >= 0)

\* A step has left the routing store above its capacity X3, with negative
\* X2 and kernels that sum to 1 (X4 = 2.0).
C15_Witness ==
    /\ ValidParams /\ pc = "loop" /\ t >= 1
    /\ X2 < 0 /\ X4 = 2 * SCALE /\ SumSeq(UH1) = SCALE
    /\ R > X3

-----------------------------------------------------------------------------
(* Properties of two calls of run on one instance (SpecTwoCalls).          *)

Finished(c) == calls[c].pc \in {"returned", "raised"}

\* C12: each call of run is self-contained.  It enters its loop with its
\* own S = 0.5*X1, R = 0.5*X3 and zero-filled delay lines of the kernels'
\* lengths, whatever the other call has done; no step of either call
\* changes X1..X4 or the arrays precip and evap; and when both calls have
\* finished, in whatever order their steps were taken, they have the same
\* outcome and the same discharge sequence.
C12_CallsSelfContained ==
    /\ [][\A c \in CallNames :
            (calls[c].pc = "ready" /\ calls'[c].pc = "loop") =>
                /\ calls'[c].st.S = Mul(X1, SCALE \div 2)
                /\ calls'[c].st.R = Mul(X3, SCALE \div 2)
                /\ calls'[c].st.U1 = Zeros(Len(calls'[c].UH1))
                /\ calls'[c].st.U2 = Zeros(Len(calls'[c].UH2))]_vars
    /\ [][instVars' = instVars /\ argVars' = argVars]_vars
    /\ []((Finished("A") /\ Finished("B")) =>
            /\ calls["A"].pc = calls["B"].pc
            /\ calls["A"].st.err = calls["B"].st.err
            /\ calls["A"].Q = calls["B"].Q)

\* Both calls have returned the same two non-zero discharge values for
\* valid parameters, and B entered run while A was inside its loop.
C12_Witness ==
    /\ ValidParams /\ lenP = 2
    /\ calls["A"].pc = "returned" /\ calls["B"].pc = "returned"
    /\ calls["B"].overlapped /\ ~calls["A"].overlapped
    /\ calls["A"].Q = calls["B"].Q
    /\ calls["A"].Q[1] > 0 /\ calls["A"].Q[2] > calls["A"].Q[1]

-----------------------------------------------------------------------------
(* Properties of the metrics (checked under SpecMet).                      *)

ZeroVariance(a) == Len(a) >= 1 /\ \A i \in 1..Len(a) : a[i] = a[1]

\* C6: calculate_nse fails whenever the observed series has zero variance;
\* it never returns a value (NaN, +inf or -inf) in that case.  Stated for
\* sequences of equal length, where nothing but the variance is at fault.
C6_DegenerateVarianceRejected ==
    (ZeroVariance(observed) /\ Len(simulated) = Len(observed))
        => mpc \notin {"nse_done", "rmse_done", "done"}

\* C7: the metrics fail whenever the observed and simulated sequences have
\* different lengths or are empty: no metric yields a value then.  (Any
\* exception is accepted as the failure the claim asks for.)
C7_ShapeMismatchRejected ==
    (Len(observed) # Len(simulated) \/ Len(observed) = 0)
        => mpc \notin {"nse_done", "rmse_done", "done"}

-----------------------------------------------------------------------------
(* Properties of the calibration (checked under SpecCal).                  *)

\* C8: a candidate whose simulation or NSE computation fails gets a large
\* finite penalty: the objective never returns NaN or an infinite value.
C8_ObjectiveFinite ==
    lastObjective.k \in {"unset", "num"}

\* C9: the search always runs its full budget of maxiter generations and
\* never stops earlier because the convergence criterion is met.
C9_RunsFullBudget ==
    cpc \in {"converged", "maxiter"} => nit = maxiter

=============================================================================
